---- MODULE Spec2Model ----
(***************************************************************************)
(* Model of ellm (altendky/ellm): the Messages log (src/src/client.rs),    *)
(* the transport call Client::send_message (src/src/client.rs) and the     *)
(* schema-guided retry engine send_with_json_retry with the book pipeline  *)
(* built on it (src/src/main.rs), Config with Client::new                  *)
(* (src/src/config.rs, src/src/client.rs) and the commands of main.        *)
(*                                                                         *)
(* Text is modelled as a sequence of lexical units: a String is a Seq of   *)
(* tokens, concatenation is \o.  A JSON object is written "{" members "}", *)
(* one token per member list entry (separators are part of the lexing).    *)
(***************************************************************************)
EXTENDS Integers, Sequences, FiniteSets, TLC

\* ------------------------------------------------------------------ bounds
\* largest max_retries the engine is called with
MaxRetries == 3
\* most pushes onto one Messages sequence
MaxPushes == 4
\* most directly listed books of a stage-1 result
MaxBooks == 2
\* most books, each with a theme of its own, of a stage-1 result
MaxWide == 7
\* most characters of an API key after its "sk-ant-" prefix, if it has one
MaxKeyTail == 5

\* ------------------------------------------------------------- text, JSON
None == [some |-> FALSE]
Some(v) == [some |-> TRUE, value |-> v]

Ok(v) == [ok |-> TRUE, value |-> v]
Err(e) == [ok |-> FALSE, error |-> e]

SeqUpTo(S, n) == UNION {[1..k -> S] : k \in 0..n}

\* the texts of at most two tokens of S
ShortTexts(S) == {<<>>} \cup {<<a>> : a \in S} \cup {<<a, b>> : a \in S, b \in S}

LBrace == "{"
RBrace == "}"
\* member lists of a BoolResponse document
AnswerTrue == "\"answer\":true,\"explanation\":\"e\""
AnswerFalse == "\"answer\":false,\"explanation\":\"e\""
\* a member that is valid JSON but not a BoolResponse field of the right type
AnswerNumber == "\"answer\":1"

\* member lists of a BookResponse document: all scores in the documented ranges,
\* a book score of 5, a series score of 2, a book score of 200
BooksInRange == "\"books\":[{..,\"score\":2,\"themes\":[\"war\"]}],\"series\":[{..,\"score\":null,\"books\":[{..,\"score\":-1,..}]}]"
BookScoreFive == "\"books\":[{..,\"score\":5,\"themes\":[\"war\"]}],\"series\":[]"
SeriesScoreTwo == "\"books\":[],\"series\":[{..,\"score\":2,\"books\":[{..,\"score\":1,..}]}]"
BookScoreTwoHundred == "\"books\":[{..,\"score\":200,\"themes\":[\"war\"]}],\"series\":[]"

BookMembers == {BooksInRange, BookScoreFive, SeriesScoreTwo, BookScoreTwoHundred}

\* member list of a RecommendationResponse document
RecommendedBooks == "\"books\":[{..,\"score\":1,\"themes\":[\"war\"]}]"

JsonBook(score, themes) ==
    [title |-> "t", authors |-> <<"a">>, score |-> score, themes |-> themes]
JsonSeries(score, books) ==
    [title |-> "s", authors |-> <<"a">>, score |-> score, books |-> books]

\* the JSON value a BookResponse member list denotes
JsonOf(member) ==
    CASE member = BooksInRange ->
            [books |-> <<JsonBook(2, <<"war">>)>>,
             series |-> <<JsonSeries(None, <<JsonBook(-1, <<"war", "peace">>)>>)>>]
      [] member = BookScoreFive ->
            [books |-> <<JsonBook(5, <<"war">>)>>, series |-> <<>>]
      [] member = SeriesScoreTwo ->
            [books |-> <<>>, series |-> <<JsonSeries(Some(2), <<JsonBook(1, <<"peace">>)>>)>>]
      [] member = BookScoreTwoHundred ->
            [books |-> <<JsonBook(200, <<"war">>)>>, series |-> <<>>]
      [] member = RecommendedBooks ->
            [books |-> <<JsonBook(1, <<"war">>)>>]

\* the response types the engine is instantiated with
Targets == {"BoolResponse", "BookResponse"}

\* the reply texts the model API can return (the empty text included)
Replies(target) ==
    IF target = "BoolResponse"
    THEN ShortTexts({RBrace, AnswerTrue, AnswerFalse, AnswerNumber})
    ELSE IF target = "BookResponse"
    THEN {<<>>, <<RBrace>>} \cup {<<m, RBrace>> : m \in BookMembers}
    ELSE {<<>>, <<RBrace>>, <<RecommendedBooks, RBrace>>}

\* String::insert_str(idx, s) at idx = 0 (tokens are 1-indexed here)
insert_str(string, idx, s) == SubSeq(string, 1, idx) \o s \o SubSeq(string, idx + 1, Len(string))

\* position of the first closing brace at or after i, or 0
RECURSIVE FirstClose(_, _)
FirstClose(s, i) ==
    IF i > Len(s) THEN 0
    ELSE IF s[i] = RBrace THEN i
    ELSE FirstClose(s, i + 1)

\* position of the first token in i..j that cannot stand where a member is expected, or 0
RECURSIVE FirstNonMember(_, _, _)
FirstNonMember(s, i, j) ==
    IF i > j THEN 0
    ELSE IF s[i] = LBrace THEN i
    ELSE FirstNonMember(s, i + 1, j)

\* decimal rendering of a position, one token per digit
RECURSIVE Decimal(_)
Decimal(n) ==
    LET digit == <<"0", "1", "2", "3", "4", "5", "6", "7", "8", "9">>[(n % 10) + 1]
    IN  IF n < 10 THEN <<digit>> ELSE Append(Decimal(n \div 10), digit)

\* json::Error::UnexpectedEndOfJson and json::Error::UnexpectedCharacter, as displayed
UnexpectedEndOfJson == <<"Unexpected end of JSON">>
UnexpectedCharacter(ch, pos) == <<"Unexpected character: ", ch, " at (1:">> \o Decimal(pos) \o <<")">>

\* json::parse: Ok, or Err with the parser's diagnostic text
json_parse(s) ==
    IF Len(s) = 0 THEN Err(UnexpectedEndOfJson)
    ELSE IF s[1] # LBrace THEN Err(UnexpectedCharacter(s[1], 1))
    ELSE LET close == FirstClose(s, 2)
             stop  == IF close = 0 THEN Len(s) ELSE close - 1
             bad   == FirstNonMember(s, 2, stop)
         IN  IF bad # 0 THEN Err(UnexpectedCharacter(s[bad], bad))
             ELSE IF close = 0 THEN Err(UnexpectedEndOfJson)
             ELSE IF close < Len(s) THEN Err(UnexpectedCharacter(s[close + 1], close + 1))
             ELSE Ok(SubSeq(s, 2, close - 1))

\* serde_json::from_str::<BoolResponse>: the derived Deserialize of BoolResponse
from_str_BoolResponse(s) ==
    LET doc == json_parse(s)
    IN  IF ~doc.ok THEN Err(doc.error)
        ELSE LET members == doc.value
             IN  IF Len(members) = 0 THEN Err(<<"missing field answer">>)
                 ELSE IF members[1] = AnswerNumber
                      THEN Err(<<"invalid type: integer 1, expected a boolean">>)
                 ELSE IF Len(members) > 1 THEN Err(<<"duplicate field answer">>)
                 ELSE Ok([answer |-> members[1] = AnswerTrue, explanation |-> "e"])

\* serde's i8 visitor: the integer must fit an i8
fits_i8(n) == n >= -128 /\ n <= 127

\* Deserialize of Book: score is an i8 (the schemars range is not part of it)
book_decodes(b) == fits_i8(b.score)

\* Deserialize of Series: score is an Option<i8>, books are Books
series_decodes(sr) ==
    /\ (~sr.score.some \/ fits_i8(sr.score.value))
    /\ \A i \in 1..Len(sr.books) : book_decodes(sr.books[i])

\* serde_json::from_str::<BookResponse>: the derived Deserialize of BookResponse
from_str_BookResponse(s) ==
    LET doc == json_parse(s)
    IN  IF ~doc.ok THEN Err(doc.error)
        ELSE LET members == doc.value
             IN  IF Len(members) = 0 THEN Err(<<"missing field books">>)
                 ELSE IF Len(members) > 1 THEN Err(<<"duplicate field books">>)
                 ELSE LET v == JsonOf(members[1])
                      IN  IF "series" \notin DOMAIN v THEN Err(<<"missing field series">>)
                          ELSE IF /\ \A i \in 1..Len(v.books) : book_decodes(v.books[i])
                                  /\ \A i \in 1..Len(v.series) : series_decodes(v.series[i])
                          THEN Ok(v)
                          ELSE Err(<<"invalid value: integer, expected i8">>)

\* serde_json::from_str::<RecommendationResponse>: books only, other fields ignored
from_str_RecommendationResponse(s) ==
    LET doc == json_parse(s)
    IN  IF ~doc.ok THEN Err(doc.error)
        ELSE LET members == doc.value
             IN  IF Len(members) = 0 THEN Err(<<"missing field books">>)
                 ELSE IF Len(members) > 1 THEN Err(<<"duplicate field books">>)
                 ELSE LET v == JsonOf(members[1])
                      IN  IF \A i \in 1..Len(v.books) : book_decodes(v.books[i])
                          THEN Ok([books |-> v.books])
                          ELSE Err(<<"invalid value: integer, expected i8">>)

\* serde_json::from_str::<T> for the target type T
from_str(target, s) ==
    CASE target = "BoolResponse" -> from_str_BoolResponse(s)
      [] target = "BookResponse" -> from_str_BookResponse(s)
      [] target = "RecommendationResponse" -> from_str_RecommendationResponse(s)

\* ---------------------------------------------------------------- Messages
Roles == {"user", "assistant"}

\* Messages::new
Messages_new == [_messages |-> <<>>]

\* a push that puts the new entry in front
push_user_in_front(self, content) ==
    [self EXCEPT !._messages = <<[role |-> "user", content |-> content]>> \o @]

\* Messages::push_user
push_user(self, content) ==
    [self EXCEPT !._messages = Append(@, [role |-> "user", content |-> content])]

\* Messages::push_assistant
push_assistant(self, content) ==
    [self EXCEPT !._messages = Append(@, [role |-> "assistant", content |-> content])]

\* impl From<Messages> for Vec<Message>
into_vec(value) == value._messages

\* ------------------------------------------------------------ transport
\* what the HTTP exchange of one send_message call can come back with
Statuses == {200, 401, 429, 500}

ErrorMessage == <<"upstream said no">>

\* bodies: a success envelope (content blocks), an error envelope, or anything else
SuccessBodies(target) ==
    {[kind |-> "MessageResponse", content |-> c] :
        c \in {<<>>} \cup {<<[text |-> r]>> : r \in Replies(target)}
                    \cup {<<[text |-> <<>>], [text |-> <<AnswerTrue, RBrace>>]>>}}
ErrorBodies == {[kind |-> "ErrorResponse", message |-> ErrorMessage]}
OtherBodies == {[kind |-> "other", text |-> <<"<html>">>]}

\* the body as the text response.text() yields
body_text(b) ==
    IF b.kind = "other" THEN b.text
    ELSE IF b.kind = "ErrorResponse"
    THEN <<"{\"type\":\"error\",\"message\":">> \o b.message \o <<"}">>
    ELSE <<"{\"content\":[..]}">>

\* the exchange fails (no response), or a response with a status and a body arrives
HttpOutcomes(target) ==
    {[sent |-> FALSE]}
        \cup {[sent |-> TRUE, status |-> 200, body |-> b] :
                 b \in SuccessBodies(target) \cup ErrorBodies \cup OtherBodies}
        \cup {[sent |-> TRUE, status |-> st, body |-> b] :
                 st \in Statuses \ {200},
                 b \in ErrorBodies \cup OtherBodies
                          \cup {[kind |-> "MessageResponse", content |-> <<[text |-> <<RBrace>>]>>]}}

\* reqwest StatusCode::is_success
is_success(status) == status >= 200 /\ status <= 299

\* a request with the lead turn pushed twice
MessageRequest_lead_twice(msgs, lead_, system_) ==
    LET withLead == IF lead_.some
                    THEN push_assistant(push_assistant(msgs, lead_.value), lead_.value)
                    ELSE msgs
    IN  [system |-> system_, temperature |-> Some(0), messages |-> into_vec(withLead)]

\* the request send_message builds: the caller's messages plus the lead turn
MessageRequest(msgs, lead_, system_) ==
    LET withLead == IF lead_.some THEN push_assistant(msgs, lead_.value) ELSE msgs
    IN  [system |-> system_, temperature |-> Some(0), messages |-> into_vec(withLead)]

\* the text of the last content block
last_block_text(content) == content[Len(content)].text

\* message_response.content.first().map(|block| block.text.clone())
first_block_text(content) == content[1].text

\* the rest of send_message: the text or the error for what came back
send_message_result(http) ==
    IF ~http.sent THEN Err([type |-> "Network"])
    ELSE IF ~is_success(http.status)
    THEN IF http.body.kind = "ErrorResponse"
         THEN IF http.status = 401
              THEN Err([type |-> "AuthenticationFailed", message |-> http.body.message])
              ELSE IF http.status = 429
              THEN Err([type |-> "RateLimitExceeded"])
              ELSE Err([type |-> "ApiError", status |-> http.status, message |-> http.body.message])
         ELSE Err([type |-> "ApiError", status |-> http.status, message |-> body_text(http.body)])
    ELSE IF http.body.kind # "MessageResponse"
    THEN Err([type |-> "UnexpectedResponse", message |-> <<"expected value">>])
    ELSE IF Len(http.body.content) = 0
    THEN Err([type |-> "UnexpectedResponse", message |-> <<"No content in response">>])
    ELSE Ok(first_block_text(http.body.content))

\* -------------------------------------------------- send_with_json_retry
VARIABLES
    target,       \* the type parameter T
    max_retries,  \* the max_retries argument
    system,       \* the caller's system argument
    messages,     \* the messages argument, mutated by the loop
    retry,        \* iterations of 'retry started so far
    pc,           \* "loop": at the loop head, "await": in send_message, "done": returned
    inflight,     \* the request send_message has posted and awaits, if any
    result,       \* the local result: Option<T>
    outcome,      \* what send_with_json_retry returned, once pc = "done"
    calls,        \* history: the arguments of each send_message call, in order
    exchanges,    \* history: what each HTTP exchange came back with
    attempts      \* history: the candidate of each attempt that got a text, and the branch taken

engineVars ==
    <<target, max_retries, system, messages, retry, pc, inflight, result, outcome,
      calls, exchanges, attempts>>

VARIABLES
    log,          \* a Messages sequence under a series of pushes
    pushed        \* history: the role and content of each push, in order

messagesVars == <<log, pushed>>

VARIABLES
    book_response,    \* book: the BookResponse of parse_book_preferences (the local response)
    overflow_checks,  \* the build profile: integer overflow panics (debug) or wraps (release)
    stage,            \* book: "parsed" before the aggregation, "selected" after, or "panicked"
    themes,           \* book: the HashMap<String, i16> tally
    collected,        \* book: the sorted Vec of (theme, score)
    selected_themes   \* book: the themes handed to suggest_books

bookVars == <<book_response, overflow_checks, stage, themes, collected, selected_themes>>

VARIABLES
    command,        \* cli.command
    cli_api_key,    \* cli.api_key
    cli_model,      \* cli.model
    cli_max_tokens, \* cli.max_tokens
    env_api_key,    \* the ANTHROPIC_API_KEY environment variable
    config_file,    \* the config file, as Config::from_file finds it
    config,         \* the local config of show_config and of build_from_cli
    validation,     \* what config.validate() returned in Client::new, once called
    client,         \* the Client built, if any
    stdout,         \* the lines printed to standard output
    stderr,         \* the messages written to standard error
    exit_code,      \* the exit code of the process, once it has exited
    main_pc,        \* where main is: "start", "client", in a command, "exited"
    episodes        \* history: the episodes of send_with_json_retry that returned earlier

processVars ==
    <<command, cli_api_key, cli_model, cli_max_tokens, env_api_key, config_file, config,
      validation, client, stdout, stderr, exit_code, main_pc, episodes>>

\* the process state an action that only prints leaves alone
processButStdout ==
    <<command, cli_api_key, cli_model, cli_max_tokens, env_api_key, config_file, config,
      validation, client, stderr, exit_code, main_pc, episodes>>

vars == <<engineVars, messagesVars, bookVars, processVars>>

\* the values of the variables of the parts a specification leaves out
EngineIdle ==
    /\ target = "BoolResponse" /\ max_retries = 0 /\ system = None
    /\ messages = Messages_new /\ retry = 0 /\ pc = "idle" /\ inflight = None
    /\ result = None /\ outcome = None /\ calls = <<>> /\ exchanges = <<>> /\ attempts = <<>>
MessagesIdle == log = Messages_new /\ pushed = <<>>
BookIdle ==
    /\ book_response = [books |-> <<>>, series |-> <<>>] /\ overflow_checks = FALSE
    /\ stage = "idle" /\ themes = <<>> /\ collected = <<>> /\ selected_themes = <<>>

ProcessIdle ==
    /\ command = "none" /\ cli_api_key = None /\ cli_model = None /\ cli_max_tokens = 0
    /\ env_api_key = [kind |-> "unset"] /\ config_file = [kind |-> "missing"]
    /\ config = None /\ validation = None /\ client = None
    /\ stdout = <<>> /\ stderr = <<>> /\ exit_code = None /\ main_pc = "idle"
    /\ episodes = <<>>

Prompts == {<<"is water wet?">>}

\* the system instruction of the bool command, of parse_book_preferences and of
\* suggest_books
SystemOf(t) ==
    CASE t = "BoolResponse" ->
            <<"consider the question or statement and answer with a true or false.">>
      [] t = "BookResponse" ->
            <<"interpret the user input to collect the information described below. ..">>
      [] t = "RecommendationResponse" ->
            <<"provide five recommended books for the given themes.">>

\* the clause generated from the schema of T
jsonschema_system(t) ==
    <<"encode the result to a json object that matches the following JSON schema:\n\n", "schema", t>>

\* the effective system instruction
effective_system(sys, t) ==
    IF sys.some THEN sys.value \o <<"\n\n">> \o jsonschema_system(t) ELSE jsonschema_system(t)

lead == <<LBrace>>

ExhaustedError == [type |-> "anyhow", message |-> <<"failed to get valid response despite retries">>]

\* a range that takes one iteration too many
has_next_inclusive(done, max) == done <= max

\* for _retry in 0..max_retries: is there another iteration
has_next(done, max) == done < max

\* the lead put after the reply instead of before it
reinsert_lead_at_end(reply) == insert_str(reply, Len(reply), lead)

\* response.insert_str(0, lead)
reinsert_lead(reply) == insert_str(reply, 0, lead)

\* the two pushes in the wrong order
feed_back_user_first(msgs, response, diagnostic) ==
    push_assistant(push_user(msgs, diagnostic), response)

\* only the diagnostic pushed, the failed response left out
feed_back_diagnostic_only(msgs, response, diagnostic) ==
    push_user(msgs, diagnostic)

\* messages.push_assistant(response); messages.push_user(diagnostic)
feed_back(msgs, response, diagnostic) ==
    push_user(push_assistant(msgs, response), diagnostic)

\* the decode error fed back as it is, with nothing in front
schema_diagnostic_bare(error) == error

\* the diagnostic of the typed decode as fed back
schema_diagnostic(error) == <<"response did not match schema: ">> \o error

\* a loop that goes on after the successful decode
break_retry_continues == "loop"

\* break 'retry: control leaves the loop for the final ok_or_else
break_retry == "done"

Init ==
    /\ target \in Targets
    /\ max_retries \in 0..MaxRetries
    /\ system \in {None, Some(SystemOf(target))}
    /\ \E message \in Prompts : messages = push_user(Messages_new, message)
    /\ retry = 0
    /\ pc = "loop"
    /\ inflight = None
    /\ result = None
    /\ outcome = None
    /\ calls = <<>>
    /\ exchanges = <<>>
    /\ attempts = <<>>
    /\ MessagesIdle
    /\ BookIdle
    /\ ProcessIdle

\* loop head with an iteration left: send_message posts the request and awaits
SendAttempt ==
    /\ pc = "loop"
    /\ has_next(retry, max_retries)
    /\ LET sys == Some(effective_system(system, target))
       IN  /\ inflight' = Some(MessageRequest(messages, Some(lead), sys))
           /\ calls' = Append(calls, [messages |-> into_vec(messages), lead |-> Some(lead),
                                      system |-> sys])
    /\ retry' = retry + 1
    /\ pc' = "await"
    /\ UNCHANGED <<target, max_retries, system, messages, result, outcome, exchanges, attempts>>
    /\ UNCHANGED <<messagesVars, bookVars, processVars>>

\* a transport error treated like a failed validation: the loop goes on
TransportFailsRetried(http) ==
    /\ pc = "await"
    /\ ~send_message_result(http).ok
    /\ inflight' = None
    /\ exchanges' = Append(exchanges, http)
    /\ pc' = "loop"
    /\ UNCHANGED <<target, max_retries, system, messages, retry, result, outcome, calls, attempts>>
    /\ UNCHANGED <<messagesVars, bookVars, processVars>>

\* send_message fails: the ? returns the error from send_with_json_retry
TransportFails(http) ==
    /\ pc = "await"
    /\ ~send_message_result(http).ok
    /\ inflight' = None
    /\ exchanges' = Append(exchanges, http)
    /\ outcome' = Some(Err(send_message_result(http).error))
    /\ pc' = "done"
    /\ UNCHANGED <<target, max_retries, system, messages, retry, result, calls, attempts>>
    /\ UNCHANGED <<messagesVars, bookVars, processVars>>

\* send_message returns a text: re-insert the lead, pre-validate, decode
ReceiveReply(http) ==
    /\ pc = "await"
    /\ send_message_result(http).ok
    /\ inflight' = None
    /\ exchanges' = Append(exchanges, http)
    /\ LET response == reinsert_lead(send_message_result(http).value)
           parsed   == json_parse(response)
           decoded  == from_str(target, response)
       IN  IF ~parsed.ok
           THEN /\ stdout' = stdout \o <<response, parsed.error>>
                /\ messages' = feed_back(messages, response, parsed.error)
                /\ attempts' = Append(attempts, [candidate |-> response, branch |-> "malformed"])
                /\ pc' = "loop"
                /\ UNCHANGED <<result, outcome>>
           ELSE IF decoded.ok
           THEN /\ stdout' = stdout \o <<response>>
                /\ result' = Some(decoded.value)
                /\ attempts' = Append(attempts, [candidate |-> response, branch |-> "decoded"])
                /\ outcome' = Some(Ok(decoded.value))
                /\ pc' = break_retry
                /\ UNCHANGED messages
           ELSE /\ stdout' = stdout \o <<response, decoded.error>>
                /\ messages' = feed_back(messages, response, schema_diagnostic(decoded.error))
                /\ attempts' = Append(attempts, [candidate |-> response, branch |-> "mismatch"])
                /\ pc' = "loop"
                /\ UNCHANGED <<result, outcome>>
    /\ UNCHANGED <<target, max_retries, system, retry, calls>>
    /\ UNCHANGED <<messagesVars, bookVars, processButStdout>>

\* loop head with no iteration left: result.ok_or_else builds the error
Exhausted ==
    /\ pc = "loop"
    /\ ~has_next(retry, max_retries)
    /\ outcome' = Some(IF result.some THEN Ok(result.value) ELSE Err(ExhaustedError))
    /\ pc' = "done"
    /\ UNCHANGED <<target, max_retries, system, messages, retry, inflight, result, calls,
                   exchanges, attempts>>
    /\ UNCHANGED <<messagesVars, bookVars, processVars>>

EngineNext ==
    \/ SendAttempt
    \/ \E http \in HttpOutcomes(target) : TransportFails(http)
    \/ \E http \in HttpOutcomes(target) : ReceiveReply(http)
    \/ Exhausted

Next == EngineNext

Spec == Init /\ [][Next]_vars

\* the episodes the commands start: a system instruction is always given
InitLive == Init /\ system.some

\* the episode under a runtime that polls the future to completion, with every
\* transport call coming back
SpecLive == InitLive /\ [][Next]_vars /\ WF_vars(Next)

\* ------------------------------------------------- book: themes, ranking
\* i16 arithmetic: the result, and whether it left the i16 range
wrap_i16(n) == ((n + 32768) % 65536) - 32768
fits_i16(n) == n >= -32768 /\ n <= 32767

\* response.books.iter().chain(response.series.iter().flat_map(|series| series.books.iter()))
RECURSIVE flat_map_books(_)
flat_map_books(series) ==
    IF Len(series) = 0 THEN <<>>
    ELSE series[1].books \o flat_map_books(Tail(series))

\* only the directly listed books, those under a series left out
chain_books_without_series(resp) == resp.books

chain_books(resp) == resp.books \o flat_map_books(resp.series)

EmptyTally == [panicked |-> FALSE, map |-> <<>>]

\* themes.entry(theme).or_insert(0), then *value += book.score as i16
add_theme(tally, theme, score, checks) ==
    LET old == IF theme \in DOMAIN tally.map THEN tally.map[theme] ELSE 0
        sum == old + score
        new == [t \in DOMAIN tally.map \cup {theme} |->
                   IF t = theme THEN wrap_i16(sum) ELSE tally.map[t]]
    IN  IF tally.panicked \/ (checks /\ ~fits_i16(sum))
        THEN [panicked |-> TRUE, map |-> tally.map]
        ELSE [panicked |-> FALSE, map |-> new]

\* for theme in book.themes.iter()
RECURSIVE add_themes(_, _, _, _)
add_themes(tally, book_themes, score, checks) ==
    IF Len(book_themes) = 0 THEN tally
    ELSE add_themes(add_theme(tally, book_themes[1], score, checks), Tail(book_themes), score, checks)

\* for book in ...: the tally of the books
RECURSIVE tally_books(_, _, _)
tally_books(tally, books, checks) ==
    IF Len(books) = 0 THEN tally
    ELSE tally_books(add_themes(tally, books[1].themes, books[1].score, checks), Tail(books), checks)

\* the orders HashMap::iter can yield the entries in: any
RECURSIVE iter_orders(_)
iter_orders(map) ==
    IF DOMAIN map = {} THEN {<<>>}
    ELSE UNION {{<<<<t, map[t]>>>> \o rest :
                    rest \in iter_orders([u \in DOMAIN map \ {t} |-> map[u]])} : t \in DOMAIN map}

\* a key that sorts by ascending score
sort_key_ascending(entry) == entry[2]

\* the key of sort_by_key: -score
sort_key(entry) == wrap_i16(0 - entry[2])

\* stable insertion: after every element whose key is not greater
RECURSIVE insert_by_key(_, _)
insert_by_key(sorted, entry) ==
    IF Len(sorted) = 0 THEN <<entry>>
    ELSE IF sort_key(sorted[Len(sorted)]) <= sort_key(entry) THEN Append(sorted, entry)
    ELSE Append(insert_by_key(SubSeq(sorted, 1, Len(sorted) - 1), entry), sorted[Len(sorted)])

\* slice::sort_by_key, a stable sort
RECURSIVE sort_by_key(_)
sort_by_key(entries) ==
    IF Len(entries) = 0 THEN <<>>
    ELSE insert_by_key(sort_by_key(SubSeq(entries, 1, Len(entries) - 1)), entries[Len(entries)])

\* -score overflows for i16::MIN; the key is computed when there is something to compare
sort_panics(map, checks) ==
    checks /\ Cardinality(DOMAIN map) >= 2 /\ \E t \in DOMAIN map : map[t] = -32768

\* the 5 of collected.len().min(5)
TopN == 5

top_count(sorted) == IF Len(sorted) < TopN THEN Len(sorted) ELSE TopN

\* collected[..top_count].iter().map(|&(theme, _score)| theme.as_str()).collect()
select_themes(sorted) == [i \in 1..top_count(sorted) |-> sorted[i][1]]

\* decimal rendering of an i16
SignedDecimal(n) == IF n < 0 THEN <<"-">> \o Decimal(0 - n) ELSE Decimal(n)

\* println!("{}: {}", score, theme) for each entry of collected
score_lines(sorted) == [i \in 1..Len(sorted) |-> SignedDecimal(sorted[i][2]) \o <<": ", sorted[i][1]>>]

\* the stage-1 results the aggregation is run on
SmallThemes == {"war", "peace"}
BookScores == {-1, 2}
SmallBooks == {JsonBook(sc, th) : sc \in BookScores, th \in ShortTexts(SmallThemes)}
SmallSeries ==
    {<<>>} \cup {<<JsonSeries(sc, <<b>>)>> : sc \in {None, Some(1)}, b \in SmallBooks}
SmallResponses ==
    {[books |-> bs, series |-> ss] : bs \in SeqUpTo(SmallBooks, MaxBooks), ss \in SmallSeries}

WideThemes == <<"war", "peace", "love", "sea", "time", "home", "fate", "loss", "hope">>
WideBooks(n, k) == [i \in 1..n |-> JsonBook(((i + k) % n) - (n \div 2), <<WideThemes[i]>>)]
WideResponses ==
    {[books |-> WideBooks(n, k), series |-> <<>>] : n \in 3..MaxWide, k \in 0..1}

InitBook ==
    /\ book_response \in SmallResponses \cup WideResponses
    /\ overflow_checks \in BOOLEAN
    /\ stage = "parsed"
    /\ themes = <<>>
    /\ collected = <<>>
    /\ selected_themes = <<>>
    /\ EngineIdle
    /\ MessagesIdle
    /\ ProcessIdle

\* book, from the return of parse_book_preferences to the call of suggest_books
AggregateAndSelect ==
    /\ stage = "parsed"
    /\ LET tally == tally_books(EmptyTally, chain_books(book_response), overflow_checks)
           titles == [i \in 1..Len(chain_books(book_response)) |->
                         <<"\"", chain_books(book_response)[i].title, "\"">>]
       IN  IF tally.panicked \/ sort_panics(tally.map, overflow_checks)
           THEN /\ stage' = "panicked"
                /\ stdout' = stdout \o titles
                /\ UNCHANGED <<themes, collected, selected_themes>>
           ELSE /\ stage' = "selected"
                /\ themes' = tally.map
                /\ \E order \in iter_orders(tally.map) :
                      /\ collected' = sort_by_key(order)
                      /\ selected_themes' = select_themes(collected')
                /\ stdout' = stdout \o titles \o score_lines(collected')
    /\ UNCHANGED <<book_response, overflow_checks>>
    /\ UNCHANGED <<engineVars, messagesVars, processButStdout>>

NextBook == AggregateAndSelect

SpecBook == InitBook /\ [][NextBook]_vars

\* ------------------------------------------- Messages under a series of pushes
Contents == {<<"hello">>, <<LBrace>>}

InitMessages ==
    /\ log = Messages_new
    /\ pushed = <<>>
    /\ EngineIdle
    /\ BookIdle
    /\ ProcessIdle

\* log.push_user(content)
PushUser(content) ==
    /\ Len(pushed) < MaxPushes
    /\ log' = push_user(log, content)
    /\ pushed' = Append(pushed, <<"user", content>>)
    /\ UNCHANGED <<engineVars, bookVars, processVars>>

\* log.push_assistant(content)
PushAssistant(content) ==
    /\ Len(pushed) < MaxPushes
    /\ log' = push_assistant(log, content)
    /\ pushed' = Append(pushed, <<"assistant", content>>)
    /\ UNCHANGED <<engineVars, bookVars, processVars>>

NextMessages ==
    \/ \E content \in Contents : PushUser(content)
    \/ \E content \in Contents : PushAssistant(content)

SpecMessages == InitMessages /\ [][NextMessages]_vars

\* --------------------------------------------------- Config, Client::new
\* an API key is a String: a sequence of characters, each of one or two UTF-8 bytes
SkAnt == <<"s", "k", "-", "a", "n", "t", "-">>
\* a character of one UTF-8 byte and one of two (U+00E9)
OneByteChar == "x"
TwoByteChar == "e-acute"
KeyChars == {OneByteChar, TwoByteChar}
utf8_len(ch) == IF ch = TwoByteChar THEN 2 ELSE 1

\* the keys: with or without the prefix, then up to MaxKeyTail characters
Keys == {prefix \o tail : prefix \in {<<>>, SkAnt}, tail \in SeqUpTo(KeyChars, MaxKeyTail)}

\* String::len: the length in bytes
RECURSIVE str_len(_)
str_len(string) == IF Len(string) = 0 THEN 0 ELSE utf8_len(string[1]) + str_len(Tail(string))

\* String::is_empty
is_empty(string) == str_len(string) = 0

\* str::starts_with
starts_with(string, pattern) ==
    Len(string) >= Len(pattern) /\ SubSeq(string, 1, Len(pattern)) = pattern

\* the characters that lie wholly within the first n bytes
RECURSIVE chars_within(_, _)
chars_within(string, n) ==
    IF Len(string) = 0 \/ utf8_len(string[1]) > n THEN <<>>
    ELSE <<string[1]>> \o chars_within(Tail(string), n - utf8_len(string[1]))

\* str::is_char_boundary
is_char_boundary(string, n) == str_len(chars_within(string, n)) = n

\* &string[..n]: the slice, or the panic of slicing inside a character
slice_to(string, n) ==
    IF is_char_boundary(string, n)
    THEN [panicked |-> FALSE, value |-> chars_within(string, n)]
    ELSE [panicked |-> TRUE,
          message |-> <<"byte index ">> \o Decimal(n)
                          \o <<" is not a char boundary; it is inside a character of ">>
                          \o string]

default_base_url == <<"https://api.anthropic.com/v1">>
default_model == <<"claude-sonnet-4-5-20250929">>
default_max_tokens == 4096

\* Config::new
Config_new(api_key) ==
    [api_key |-> api_key, base_url |-> default_base_url, model |-> default_model,
     max_tokens |-> default_max_tokens]

\* Config::from_file: the config directory, the file, its contents, the TOML in it
Config_from_file(file) ==
    CASE file.kind = "no_config_dir" ->
            Err([type |-> "Config", kind |-> "ParseError"])
      [] file.kind = "missing" ->
            Err([type |-> "Config", kind |-> "FileNotFound"])
      [] file.kind = "unreadable" ->
            Err([type |-> "Io"])
      [] file.kind = "unparseable" ->
            Err([type |-> "Config", kind |-> "ParseError"])
      [] file.kind = "toml" ->
            Ok([api_key |-> file.api_key, base_url |-> default_base_url,
                model |-> IF file.model.some THEN file.model.value ELSE default_model,
                max_tokens |-> default_max_tokens])

\* std::env::var: Ok for a variable that is set and valid Unicode
env_var(env) == IF env.kind = "set" THEN Ok(env.value) ELSE Err(env.kind)

\* a load that passes over an explicit key that is empty
Config_load_skips_empty(api_key, env, file) ==
    IF api_key.some /\ api_key.value # <<>> THEN Ok(Config_new(api_key.value))
    ELSE IF env_var(env).ok THEN Ok(Config_new(env_var(env).value))
    ELSE IF Config_from_file(file).ok THEN Config_from_file(file)
    ELSE Err([type |-> "Config", kind |-> "ApiKeyNotFound"])

\* a load that looks at the config file before the environment
Config_load_file_first(api_key, env, file) ==
    IF api_key.some THEN Ok(Config_new(api_key.value))
    ELSE IF Config_from_file(file).ok THEN Config_from_file(file)
    ELSE IF env_var(env).ok THEN Ok(Config_new(env_var(env).value))
    ELSE Err([type |-> "Config", kind |-> "ApiKeyNotFound"])

\* Config::load
Config_load(api_key, env, file) ==
    IF api_key.some THEN Ok(Config_new(api_key.value))
    ELSE IF env_var(env).ok THEN Ok(Config_new(env_var(env).value))
    ELSE IF Config_from_file(file).ok THEN Config_from_file(file)
    ELSE Err([type |-> "Config", kind |-> "ApiKeyNotFound"])

PrefixWarning == <<"Warning: API key does not start with 'sk-ant-'. This may be invalid.">>

\* a validation that rejects a key without the prefix
Config_validate_strict(self) ==
    IF is_empty(self.api_key) \/ ~starts_with(self.api_key, SkAnt)
    THEN [result |-> Err([type |-> "Config", kind |-> "InvalidApiKey"]), warned |-> FALSE]
    ELSE [result |-> Ok("unit"), warned |-> FALSE]

\* Config::validate: the result, and whether the warning was written
Config_validate(self) ==
    IF is_empty(self.api_key)
    THEN [result |-> Err([type |-> "Config", kind |-> "InvalidApiKey"]), warned |-> FALSE]
    ELSE [result |-> Ok("unit"), warned |-> ~starts_with(self.api_key, SkAnt)]

\* Config::with_model, Config::with_max_tokens
with_model(self, model) == [self EXCEPT !.model = model]
with_max_tokens(self, max_tokens) == [self EXCEPT !.max_tokens = max_tokens]

\* the overrides of build_from_cli
apply_cli_overrides(cfg, model, max_tokens) ==
    with_max_tokens(IF model.some THEN with_model(cfg, model.value) ELSE cfg, max_tokens)

\* a Client built without validating the configuration
Client_new_unvalidated(cfg, http_client_builds) ==
    IF ~http_client_builds THEN Err([type |-> "Api", kind |-> "InvalidRequest"])
    ELSE Ok([config |-> cfg])

\* Client::new after validate: HttpClient::builder().build(), then the Client
Client_new(cfg, http_client_builds) ==
    IF ~Config_validate(cfg).result.ok THEN Err(Config_validate(cfg).result.error)
    ELSE IF ~http_client_builds THEN Err([type |-> "Api", kind |-> "InvalidRequest"])
    ELSE Ok([config |-> cfg])

\* what the runtime writes when main returns Err
ErrorReport(error) == [kind |-> "error", text |-> <<"Error: ">>, error |-> error]
WarningReport == [kind |-> "warning", text |-> PrefixWarning]
PanicReport(message) == [kind |-> "panic", text |-> message]

\* the number of characters of the key show_config prints
ShownKeyBytes == 10

min(a, b) == IF a < b THEN a ELSE b

\* the lines show_config prints after the key line
config_lines(cfg, file) ==
    << <<"  Base URL: ">> \o cfg.base_url,
       <<"  Model: ">> \o cfg.model,
       <<"  Max Tokens: ">> \o Decimal(cfg.max_tokens) >>
    \o (IF file.kind = "no_config_dir" THEN <<>>
        ELSE << <<"\nConfig file location: ", "config_dir/ellm/config.toml">>,
                <<IF file.kind = "missing" THEN "  Status: Not found" ELSE "  Status: Found">> >>)

\* the command is config: show_config, then main returns
ShowConfig ==
    /\ command = "config"
    /\ main_pc = "start"
    /\ LET loaded == Config_load(cli_api_key, env_api_key, config_file)
       IN  IF ~loaded.ok
           THEN /\ stderr' = Append(stderr, ErrorReport(loaded.error))
                /\ exit_code' = Some(1)
                /\ UNCHANGED <<config, stdout>>
           ELSE LET cfg == loaded.value
                    shown == slice_to(cfg.api_key, min(ShownKeyBytes, str_len(cfg.api_key)))
                IN  /\ config' = Some(cfg)
                    /\ IF shown.panicked
                       THEN /\ stdout' = stdout \o << <<"Current Configuration:">> >>
                            /\ stderr' = Append(stderr, PanicReport(shown.message))
                            /\ exit_code' = Some(101)
                       ELSE /\ stdout' = stdout
                                    \o << <<"Current Configuration:">>,
                                          <<"  API Key: ">> \o shown.value \o <<"***">> >>
                                    \o config_lines(cfg, config_file)
                            /\ exit_code' = Some(0)
                            /\ UNCHANGED stderr
    /\ main_pc' = "exited"
    /\ UNCHANGED <<command, cli_api_key, cli_model, cli_max_tokens, env_api_key, config_file,
                   validation, client, episodes>>
    /\ UNCHANGED <<engineVars, messagesVars, bookVars>>

\* the command is send, bool or book: build_from_cli, the first thing each does
BuildClient(http_client_builds) ==
    /\ command \in {"send", "bool", "book"}
    /\ main_pc = "start"
    /\ LET loaded == Config_load(cli_api_key, env_api_key, config_file)
       IN  IF ~loaded.ok
           THEN /\ stderr' = Append(stderr, ErrorReport(loaded.error))
                /\ exit_code' = Some(1)
                /\ main_pc' = "exited"
                /\ UNCHANGED <<config, validation, client>>
           ELSE LET cfg == apply_cli_overrides(loaded.value, cli_model, cli_max_tokens)
                    checked == Config_validate(cfg)
                    built == Client_new(cfg, http_client_builds)
                    warnings == IF checked.warned THEN <<WarningReport>> ELSE <<>>
                IN  /\ config' = Some(cfg)
                    /\ validation' = Some(checked.result)
                    /\ IF built.ok
                       THEN /\ client' = Some(built.value)
                            /\ stderr' = stderr \o warnings
                            /\ main_pc' = "client"
                            /\ UNCHANGED exit_code
                       ELSE /\ stderr' = stderr \o warnings \o <<ErrorReport(built.error)>>
                            /\ exit_code' = Some(1)
                            /\ main_pc' = "exited"
                            /\ UNCHANGED client
    /\ UNCHANGED <<command, cli_api_key, cli_model, cli_max_tokens, env_api_key, config_file,
                   stdout, episodes>>
    /\ UNCHANGED <<engineVars, messagesVars, bookVars>>

\* the environments a command is started in
EnvKeys == {<<>>, SkAnt \o <<"x">>, <<"x">>}
Environments ==
    {[kind |-> "unset"], [kind |-> "not_unicode"]} \cup {[kind |-> "set", value |-> k] : k \in EnvKeys}
ConfigFiles ==
    {[kind |-> k] : k \in {"no_config_dir", "missing", "unreadable", "unparseable"}}
        \cup {[kind |-> "toml", api_key |-> k, model |-> m] :
                 k \in {<<>>, SkAnt \o <<TwoByteChar>>}, m \in {None, Some(<<"claude-opus-4">>)}}
CliModels == {Some(default_model), Some(<<"claude-opus-4">>)}

InitConfig ==
    /\ command \in {"config", "send"}
    /\ cli_api_key \in {None} \cup {Some(k) : k \in Keys}
    /\ cli_model \in CliModels
    /\ cli_max_tokens \in {default_max_tokens, 1000}
    /\ env_api_key \in Environments
    /\ config_file \in ConfigFiles
    /\ config = None /\ validation = None /\ client = None
    /\ stdout = <<>> /\ stderr = <<>> /\ exit_code = None
    /\ main_pc = "start"
    /\ episodes = <<>>
    /\ EngineIdle
    /\ MessagesIdle
    /\ BookIdle

NextConfig ==
    \/ ShowConfig
    \/ \E http_client_builds \in BOOLEAN : BuildClient(http_client_builds)

SpecConfig == InitConfig /\ [][NextConfig]_vars

\* ------------------------------------------------- main: send, bool, book
\* the 3 the commands pass as max_retries
CommandRetries == 3

Question == <<"is water wet?">>
BookMessage == <<"i liked war and peace">>
SendMessage == <<"hello">>
SendingNotice == <<"Sending message to Claude...\n">>

\* [&str]::join
RECURSIVE join(_, _)
join(list, sep) ==
    IF Len(list) = 0 THEN <<>>
    ELSE IF Len(list) = 1 THEN <<list[1]>>
    ELSE <<list[1], sep>> \o join(Tail(list), sep)

\* the call of send_with_json_retry::<t>(&client, messages, Some(system), 3), up to
\* the head of its loop
StartEpisode(t, msgs) ==
    /\ target' = t
    /\ max_retries' = CommandRetries
    /\ system' = Some(SystemOf(t))
    /\ messages' = msgs
    /\ retry' = 0
    /\ pc' = "loop"
    /\ inflight' = None
    /\ result' = None
    /\ outcome' = None
    /\ calls' = <<>>
    /\ exchanges' = <<>>
    /\ attempts' = <<>>

\* main returns Err, or calls std::process::exit: the process is over
ExitWithError(error) ==
    /\ stderr' = Append(stderr, ErrorReport(error))
    /\ exit_code' = Some(1)
    /\ main_pc' = "exited"

\* send_message (the command): the one send_message call is posted
SendCall ==
    /\ command = "send"
    /\ main_pc = "client"
    /\ LET msgs == push_user(Messages_new, SendMessage)
       IN  /\ inflight' = Some(MessageRequest(msgs, None, None))
           /\ calls' = Append(calls, [messages |-> into_vec(msgs), lead |-> None, system |-> None])
    /\ stdout' = Append(stdout, SendingNotice)
    /\ main_pc' = "send"
    /\ UNCHANGED <<target, max_retries, system, messages, retry, pc, result, outcome, exchanges,
                   attempts>>
    /\ UNCHANGED <<command, cli_api_key, cli_model, cli_max_tokens, env_api_key, config_file,
                   config, validation, client, stderr, exit_code, episodes>>
    /\ UNCHANGED <<messagesVars, bookVars>>

\* send_message (the command): the call comes back, the text is printed
SendReturns(http) ==
    /\ main_pc = "send"
    /\ inflight' = None
    /\ exchanges' = Append(exchanges, http)
    /\ LET response == send_message_result(http)
       IN  IF response.ok
           THEN /\ stdout' = Append(stdout, response.value)
                /\ exit_code' = Some(0)
                /\ main_pc' = "exited"
                /\ UNCHANGED stderr
           ELSE /\ ExitWithError(response.error)
                /\ UNCHANGED stdout
    /\ UNCHANGED <<target, max_retries, system, messages, retry, pc, result, outcome, calls,
                   attempts>>
    /\ UNCHANGED <<command, cli_api_key, cli_model, cli_max_tokens, env_api_key, config_file,
                   config, validation, client, episodes>>
    /\ UNCHANGED <<messagesVars, bookVars>>

\* bool: the episode is started
StartBool ==
    /\ command = "bool"
    /\ main_pc = "client"
    /\ stdout' = Append(stdout, SendingNotice)
    /\ StartEpisode("BoolResponse", push_user(Messages_new, Question))
    /\ main_pc' = "bool"
    /\ UNCHANGED <<command, cli_api_key, cli_model, cli_max_tokens, env_api_key, config_file,
                   config, validation, client, stderr, exit_code, episodes>>
    /\ UNCHANGED <<messagesVars, bookVars>>

\* an exit code that does not tell false from true
bool_exit_code_zero(answer) == 0

\* main: true => (), then Ok(()); false => std::process::exit(1)
bool_exit_code(answer) == IF answer THEN 0 ELSE 1

\* bool returned to main
BoolReturns ==
    /\ main_pc = "bool"
    /\ pc = "done"
    /\ IF outcome.value.ok
       THEN /\ exit_code' = Some(bool_exit_code(outcome.value.value.answer))
            /\ main_pc' = "exited"
            /\ UNCHANGED stderr
       ELSE ExitWithError(outcome.value.error)
    /\ UNCHANGED <<command, cli_api_key, cli_model, cli_max_tokens, env_api_key, config_file,
                   config, validation, client, stdout, episodes>>
    /\ UNCHANGED <<engineVars, messagesVars, bookVars>>

\* book: parse_book_preferences starts its episode
StartBook ==
    /\ command = "book"
    /\ main_pc = "client"
    /\ StartEpisode("BookResponse", push_user(Messages_new, BookMessage))
    /\ main_pc' = "book_parse"
    /\ UNCHANGED <<command, cli_api_key, cli_model, cli_max_tokens, env_api_key, config_file,
                   config, validation, client, stdout, stderr, exit_code, episodes>>
    /\ UNCHANGED <<messagesVars, bookVars>>

\* book: parse_book_preferences returned; the ? ends the command on an error
ParseReturns ==
    /\ main_pc = "book_parse"
    /\ pc = "done"
    /\ IF outcome.value.ok
       THEN /\ book_response' = outcome.value.value
            /\ stage' = "parsed"
            /\ main_pc' = "book_aggregate"
            /\ UNCHANGED <<stderr, exit_code>>
       ELSE /\ ExitWithError(outcome.value.error)
            /\ UNCHANGED <<book_response, stage>>
    /\ UNCHANGED <<overflow_checks, themes, collected, selected_themes>>
    /\ UNCHANGED <<command, cli_api_key, cli_model, cli_max_tokens, env_api_key, config_file,
                   config, validation, client, stdout, episodes>>
    /\ UNCHANGED <<engineVars, messagesVars>>

\* an episode that goes on from the messages of the one before
suggest_messages_continued(previous, prompt) == push_user(previous, prompt)

\* suggest_books: Messages::new().push_user(selected_themes.join(", "))
suggest_messages(previous, prompt) == push_user(Messages_new, prompt)

\* book: the aggregation is over; suggest_books starts its episode, unless the
\* aggregation panicked
StartSuggest ==
    /\ main_pc = "book_aggregate"
    /\ stage \in {"selected", "panicked"}
    /\ IF stage = "panicked"
       THEN /\ stderr' = Append(stderr, PanicReport(<<"attempt to add with overflow">>))
            /\ exit_code' = Some(101)
            /\ main_pc' = "exited"
            /\ UNCHANGED <<engineVars, episodes>>
       ELSE /\ episodes' = Append(episodes, [target |-> target, calls |-> calls,
                                             messages |-> into_vec(messages),
                                             outcome |-> outcome.value])
            /\ StartEpisode("RecommendationResponse",
                            suggest_messages(messages, join(selected_themes, ", ")))
            /\ main_pc' = "book_suggest"
            /\ UNCHANGED <<stderr, exit_code>>
    /\ UNCHANGED <<command, cli_api_key, cli_model, cli_max_tokens, env_api_key, config_file,
                   config, validation, client, stdout>>
    /\ UNCHANGED <<messagesVars, bookVars>>

\* book: suggest_books returned; book returns to main
SuggestReturns ==
    /\ main_pc = "book_suggest"
    /\ pc = "done"
    /\ IF outcome.value.ok
       THEN /\ exit_code' = Some(0)
            /\ main_pc' = "exited"
            /\ UNCHANGED stderr
       ELSE ExitWithError(outcome.value.error)
    /\ UNCHANGED <<command, cli_api_key, cli_model, cli_max_tokens, env_api_key, config_file,
                   config, validation, client, stdout, episodes>>
    /\ UNCHANGED <<engineVars, messagesVars, bookVars>>

\* what the model API answers a command with: a valid document, one of the wrong
\* shape, one that is cut short
CommandReplies(t) ==
    CASE t = "BoolResponse" ->
            {<<AnswerTrue, RBrace>>, <<AnswerFalse, RBrace>>, <<AnswerNumber, RBrace>>, <<>>}
      [] t = "BookResponse" -> {<<BooksInRange, RBrace>>, <<RBrace>>, <<>>}
      [] t = "RecommendationResponse" -> {<<RecommendedBooks, RBrace>>, <<RBrace>>, <<>>}
      [] t = "String" -> {<<"hello">>}

CommandOutcomes(t) ==
    {[sent |-> FALSE], [sent |-> TRUE, status |-> 401, body |-> CHOOSE b \in ErrorBodies : TRUE]}
        \cup {[sent |-> TRUE, status |-> 200,
               body |-> [kind |-> "MessageResponse", content |-> <<[text |-> r]>>]] :
                 r \in CommandReplies(t)}

InitCommand ==
    /\ command \in {"send", "config", "bool", "book"}
    /\ cli_api_key \in {None, Some(<<>>), Some(SkAnt \o <<OneByteChar>>)}
    /\ cli_model = Some(default_model)
    /\ cli_max_tokens = default_max_tokens
    /\ env_api_key \in {[kind |-> "unset"], [kind |-> "set", value |-> <<OneByteChar>>]}
    /\ config_file \in {[kind |-> "missing"], [kind |-> "toml", api_key |-> <<>>, model |-> None]}
    /\ config = None /\ validation = None /\ client = None
    /\ stdout = <<>> /\ stderr = <<>> /\ exit_code = None
    /\ main_pc = "start"
    /\ episodes = <<>>
    /\ EngineIdle
    /\ MessagesIdle
    /\ book_response = [books |-> <<>>, series |-> <<>>] /\ overflow_checks \in BOOLEAN
    /\ stage = "idle" /\ themes = <<>> /\ collected = <<>> /\ selected_themes = <<>>

NextCommand ==
    \/ ShowConfig
    \/ \E http_client_builds \in BOOLEAN : BuildClient(http_client_builds)
    \/ SendCall
    \/ \E http \in CommandOutcomes("String") : SendReturns(http)
    \/ StartBool
    \/ BoolReturns
    \/ StartBook
    \/ ParseReturns
    \/ AggregateAndSelect
    \/ StartSuggest
    \/ SuggestReturns
    \/ SendAttempt
    \/ \E http \in CommandOutcomes(target) : TransportFails(http)
    \/ \E http \in CommandOutcomes(target) : ReceiveReply(http)
    \/ Exhausted

SpecCommand == InitCommand /\ [][NextCommand]_vars

\* ------------------------------------------------- properties of the engine
\* the exchange of a send_message call ended in a transport-level error
IsTransportError(http) ==
    \/ ~http.sent
    \/ http.status < 200 \/ http.status > 299
    \/ http.body.kind # "MessageResponse"
    \/ http.body.content = <<>>

TransportErrorTypes ==
    {"Network", "AuthenticationFailed", "RateLimitExceeded", "ApiError", "UnexpectedResponse"}

\* the reply text of exchange i and the candidate document it stands for
ReplyText(i) == exchanges[i].body.content[1].text
Candidate(i) == <<LBrace>> \o ReplyText(i)

\* the candidate of attempt i is well-formed and decodes into the target type
Validates(i) == json_parse(Candidate(i)).ok /\ from_str(target, Candidate(i)).ok

\* the diagnostic of a candidate that does not validate
Diagnostic(i) ==
    IF ~json_parse(Candidate(i)).ok THEN json_parse(Candidate(i)).error
    ELSE <<"response did not match schema: ">> \o from_str(target, Candidate(i)).error

Returned == pc = "done" /\ outcome.some
ReturnedOk == Returned /\ outcome.value.ok
ReturnedErr == Returned /\ ~outcome.value.ok

\* C1: when attempts 1..k-1 fail validation and the candidate of attempt k is
\* well-formed and decodes, the engine has returned the value decoded from that
\* candidate, after exactly k transport calls, and no call follows.
C1_FirstValidCandidateReturned ==
    \A k \in 1..Len(exchanges) :
        (/\ \A j \in 1..k : ~IsTransportError(exchanges[j])
         /\ \A j \in 1..(k - 1) : ~Validates(j)
         /\ Validates(k))
        => /\ ReturnedOk
           /\ outcome.value.value = from_str(target, Candidate(k)).value
           /\ Len(calls) = k
           /\ Len(exchanges) = k
           /\ ~inflight.some

C1_Witness ==
    /\ max_retries = 3
    /\ Len(exchanges) = 3
    /\ ReturnedOk
    /\ ~Validates(1) /\ ~Validates(2) /\ Validates(3)

\* C2: when every one of the max_retries attempts fails validation and no
\* transport error occurs, the engine fails with the exhausted-retries error,
\* after exactly max_retries transport calls, and holds no typed value; the
\* number of transport calls never exceeds max_retries.
C2_AllAttemptsFailExhausts ==
    /\ Len(calls) <= max_retries
    /\ (/\ Len(exchanges) = max_retries
        /\ \A j \in 1..max_retries : ~IsTransportError(exchanges[j]) /\ ~Validates(j))
       => /\ Len(calls) = max_retries
          /\ ~result.some
          /\ pc \in {"loop", "done"}
          /\ pc = "done" => ReturnedErr /\ outcome.value.error = ExhaustedError

C2_Witness ==
    /\ max_retries = 3
    /\ Len(exchanges) = 3
    /\ \A j \in 1..3 : ~IsTransportError(exchanges[j]) /\ ~Validates(j)
    /\ json_parse(Candidate(1)).ok /\ ~json_parse(Candidate(2)).ok
    /\ ReturnedErr

\* C3: when the transport call of attempt j fails with a transport-level error,
\* the engine has returned that error: it is the last call of the episode, no
\* feedback turn was appended for it, and the error is a transport error, not
\* the exhausted-retries error.
C3_TransportErrorReturnedAtOnce ==
    \A j \in 1..Len(exchanges) :
        IsTransportError(exchanges[j])
        => /\ j = Len(exchanges)
           /\ Len(calls) = j
           /\ ReturnedErr
           /\ outcome.value.error.type \in TransportErrorTypes
           /\ outcome.value.error # ExhaustedError
           /\ Len(attempts) = j - 1
           /\ into_vec(messages) = calls[j].messages

C3_Witness ==
    /\ Len(exchanges) = 2
    /\ max_retries = 3
    /\ ~Validates(1)
    /\ IsTransportError(exchanges[2])
    /\ ReturnedErr

\* C4: the conversation passed to the transport at attempt j+1 is the one of
\* attempt j followed by an assistant turn holding the candidate of attempt j
\* and then a user turn holding its diagnostic; the earlier turns are the same,
\* in the same order.
C4_ConversationGrowsByTwoTurns ==
    \A j \in 1..(Len(calls) - 1) :
        LET prev == calls[j].messages
            next == calls[j + 1].messages
        IN  /\ Len(next) = Len(prev) + 2
            /\ SubSeq(next, 1, Len(prev)) = prev
            /\ next[Len(prev) + 1] = [role |-> "assistant", content |-> Candidate(j)]
            /\ next[Len(prev) + 2] = [role |-> "user", content |-> Diagnostic(j)]

C4_Witness ==
    /\ Len(calls) = 3
    /\ json_parse(Candidate(1)).ok
    /\ ~json_parse(Candidate(2)).ok

\* C5: the candidate that is validated and, on failure, appended as the
\* assistant turn is the lead followed by the reply text, token for token.
C5_CandidateIsLeadThenReply ==
    \A i \in 1..Len(attempts) :
        /\ attempts[i].candidate = <<LBrace>> \o ReplyText(i)
        /\ Len(attempts[i].candidate) = 1 + Len(ReplyText(i))
        /\ attempts[i].branch # "decoded"
           => into_vec(messages)[2 * i] = [role |-> "assistant", content |-> <<LBrace>> \o ReplyText(i)]

C5_Witness ==
    /\ Len(attempts) = 2
    /\ ReplyText(1) = <<>>
    /\ Len(ReplyText(2)) = 2
    /\ attempts[2].branch = "malformed"

\* a decoded or JSON document holds a book score outside -2..2 or a series score outside -1..1
BookOutOfRange(b) == b.score < -2 \/ b.score > 2
HasOutOfRangeScore(v) ==
    \/ \E i \in 1..Len(v.books) : BookOutOfRange(v.books[i])
    \/ \E i \in 1..Len(v.series) :
          \/ v.series[i].score.some /\ (v.series[i].score.value < -1 \/ v.series[i].score.value > 1)
          \/ \E k \in 1..Len(v.series[i].books) : BookOutOfRange(v.series[i].books[k])

\* C6: a well-formed BookResponse candidate with a book score outside -2..2 or a
\* series score outside -1..1 fails the typed decode and is fed back; no such
\* value is returned.
C6_OutOfRangeScoreFailsDecode ==
    target = "BookResponse"
    => /\ \A i \in 1..Len(attempts) :
             LET doc == json_parse(attempts[i].candidate)
             IN  (doc.ok /\ Len(doc.value) = 1 /\ HasOutOfRangeScore(JsonOf(doc.value[1])))
                 => attempts[i].branch = "mismatch"
       /\ ReturnedOk => ~HasOutOfRangeScore(outcome.value.value)

\* C7: the message sequence of an episode started from one user prompt reads
\* user, (assistant, user)*: it has 1 + 2 * (attempts that failed validation)
\* turns and ends with a user turn.
C7_RolesAlternate ==
    LET m == into_vec(messages)
        failed == {i \in 1..Len(exchanges) : ~IsTransportError(exchanges[i]) /\ ~Validates(i)}
    IN  /\ Len(m) = 1 + 2 * Cardinality(failed)
        /\ \A i \in 1..Len(m) : m[i].role = IF i % 2 = 1 THEN "user" ELSE "assistant"
        /\ m[Len(m)].role = "user"

C7_Witness ==
    /\ Len(into_vec(messages)) = 7
    /\ pc = "done"

\* C8: after any series of pushes the wire form lists one entry per push, in
\* push order, each with the role of its push and the content given; so every
\* push adds exactly one entry at the end and leaves the earlier ones as they were.
C8_PushesAppendInOrder ==
    LET wire == into_vec(log)
    IN  /\ Len(wire) = Len(pushed)
        /\ \A i \in 1..Len(pushed) :
              /\ wire[i].role = pushed[i][1]
              /\ wire[i].content = pushed[i][2]
              /\ wire[i].role \in Roles

C8_Witness ==
    /\ Len(pushed) = 3
    /\ pushed[1][1] = "assistant" /\ pushed[2][1] = "user" /\ pushed[3][1] = "user"
    /\ pushed[2][2] # pushed[3][2]

\* a theme is listed by book b
Lists(b, t) == \E i \in 1..Len(b.themes) : b.themes[i] = t

\* the books of a stage-1 result, the directly listed ones and those under a series
DirectBooks(resp) == {<<"book", i>> : i \in 1..Len(resp.books)}
SeriesBooks(resp) ==
    UNION {{<<"series", i, k>> : k \in 1..Len(resp.series[i].books)} : i \in 1..Len(resp.series)}
BookAt(resp, at) ==
    IF at[1] = "book" THEN resp.books[at[2]] ELSE resp.series[at[2]].books[at[3]]

RECURSIVE SumOfScores(_, _)
SumOfScores(resp, places) ==
    IF places = {} THEN 0
    ELSE LET at == CHOOSE x \in places : TRUE
         IN  BookAt(resp, at).score + SumOfScores(resp, places \ {at})

ThemesOf(resp) ==
    {t \in SmallThemes \cup {WideThemes[i] : i \in 1..Len(WideThemes)} :
        \E at \in DirectBooks(resp) \cup SeriesBooks(resp) : Lists(BookAt(resp, at), t)}

\* C9 as stated: after the aggregation the tally has an entry for every theme
\* some book (directly listed or under a series) lists, and the entry is the sum
\* of the scores of the books listing that theme, each book counted once;
\* series scores are not added.
C9_TallyIsSumOfContributingBooks ==
    stage = "selected"
    => /\ DOMAIN themes = ThemesOf(book_response)
       /\ \A t \in DOMAIN themes :
             themes[t] = SumOfScores(book_response,
                            {at \in DirectBooks(book_response) \cup SeriesBooks(book_response) :
                                Lists(BookAt(book_response, at), t)})

\* the listings of theme t: a book and a position in its themes
Listings(resp, t) ==
    UNION {{<<at, i>> : i \in {j \in 1..Len(BookAt(resp, at).themes) :
                                 BookAt(resp, at).themes[j] = t}} :
           at \in DirectBooks(resp) \cup SeriesBooks(resp)}

RECURSIVE SumOverListings(_, _)
SumOverListings(resp, listings) ==
    IF listings = {} THEN 0
    ELSE LET l == CHOOSE x \in listings : TRUE
         IN  BookAt(resp, l[1]).score + SumOverListings(resp, listings \ {l})

WarAndPeace ==
    [books |-> <<JsonBook(2, <<"war">>), JsonBook(-1, <<"war", "peace">>)>>, series |-> <<>>]

\* C9, amended: after the aggregation the tally has an entry for every theme some
\* book (directly listed or under a series) lists, and the entry is the sum, over
\* every listing of the theme, of the score of the listing book, when that sum
\* fits an i16: a book that lists a theme twice adds its score twice; series
\* scores are not added.  The books (2, [war]) and (-1, [war, peace]) give
\* war = 1, peace = -1 and the ranking war, peace.
C9_TallyIsSumOverListings ==
    stage = "selected"
    => /\ DOMAIN themes = ThemesOf(book_response)
       /\ \A t \in DOMAIN themes :
             LET sum == SumOverListings(book_response, Listings(book_response, t))
             IN  fits_i16(sum) => themes[t] = sum
       /\ book_response = WarAndPeace
          => /\ themes["war"] = 1 /\ themes["peace"] = -1
             /\ selected_themes = <<"war", "peace">>

C9_Witness ==
    /\ stage = "selected"
    /\ book_response.books = WarAndPeace.books
    /\ book_response.series = <<JsonSeries(Some(1), <<JsonBook(2, <<"peace", "peace">>)>>)>>
    /\ themes["war"] = 1 /\ themes["peace"] = 3
    /\ selected_themes = <<"peace", "war">>

\* C10: when the aggregate scores are pairwise distinct, the selected themes are
\* the min(5, number of themes) themes of highest score, listed by descending score.
C10_TopFiveByDescendingScore ==
    (stage = "selected" /\ \A t, u \in DOMAIN themes : t # u => themes[t] # themes[u])
    => LET n == Cardinality(DOMAIN themes)
           chosen == {selected_themes[i] : i \in 1..Len(selected_themes)}
       IN  /\ Len(selected_themes) = IF n < 5 THEN n ELSE 5
           /\ chosen \subseteq DOMAIN themes
           /\ \A i, j \in 1..Len(selected_themes) :
                 i < j => themes[selected_themes[i]] > themes[selected_themes[j]]
           /\ \A t \in DOMAIN themes \ chosen : \A c \in chosen : themes[c] > themes[t]

C10_Witness ==
    /\ stage = "selected"
    /\ Cardinality(DOMAIN themes) = 7
    /\ \A t, u \in DOMAIN themes : t # u => themes[t] # themes[u]
    /\ Len(selected_themes) = 5
    /\ themes[selected_themes[5]] = -1

\* C11: two runs of the aggregation on the same stage-1 result select the same
\* ordered list of themes, also when themes have equal aggregate scores: whatever
\* order the map yields its entries in, the selection is the one this run made.
C11_RankingIsDeterministic ==
    stage = "selected"
    => \A order \in iter_orders(themes) : select_themes(sort_by_key(order)) = selected_themes

\* C15: every response with a status outside 2xx ends the call with an error and
\* no text: AuthenticationFailed for 401, RateLimitExceeded for 429, and for every
\* other status an ApiError carrying that status and a message.
C15_StatusDecidesTheError ==
    \A j \in 1..Len(exchanges) :
        (exchanges[j].sent /\ ~is_success(exchanges[j].status))
        => /\ j = Len(exchanges)
           /\ ReturnedErr
           /\ LET error == outcome.value.error
                  status == exchanges[j].status
              IN  IF status = 401 THEN error.type = "AuthenticationFailed"
                  ELSE IF status = 429 THEN error.type = "RateLimitExceeded"
                  ELSE /\ error.type = "ApiError"
                       /\ error.status = status
                       /\ Len(error.message) > 0

SchemaPrefix == "response did not match schema: "

\* C18: the user turn fed back after a failed attempt is the JSON parser's
\* diagnostic, as it is, when the candidate is malformed, and the decode error
\* after the schema-mismatch prefix when the candidate is well-formed but does
\* not decode; the prefix is there exactly when the candidate passed the
\* pre-validation, and only such candidates reach the typed decode.
C18_FeedbackNamesTheFailureClass ==
    \A i \in 1..Len(attempts) :
        LET candidate == attempts[i].candidate
            parsed == json_parse(candidate)
        IN  /\ attempts[i].branch = "malformed" <=> ~parsed.ok
            /\ attempts[i].branch \in {"decoded", "mismatch"} => parsed.ok
            /\ attempts[i].branch # "decoded"
               => LET turn == into_vec(messages)[2 * i + 1]
                  IN  /\ turn.role = "user"
                      /\ turn.content[1] = SchemaPrefix <=> parsed.ok
                      /\ ~parsed.ok => turn.content = parsed.error
                      /\ parsed.ok
                         => /\ ~from_str(target, candidate).ok
                            /\ turn.content = <<SchemaPrefix>> \o from_str(target, candidate).error

C18_Witness ==
    /\ Len(attempts) = 3
    /\ attempts[1].branch = "mismatch"
    /\ attempts[2].branch = "malformed"
    /\ attempts[3].branch = "decoded"

\* the terminal outcome is exactly one of: typed success, exhausted retries,
\* propagated transport error
C19_OneTerminalOutcome ==
    /\ Len(calls) <= max_retries
    /\ retry <= max_retries
    /\ pc = "done"
       => /\ outcome.some
          /\ ~inflight.some
          /\ \/ /\ outcome.value.ok
                /\ attempts[Len(attempts)].branch = "decoded"
             \/ /\ ~outcome.value.ok
                /\ outcome.value.error = ExhaustedError
                /\ Len(calls) = max_retries
                /\ \A i \in 1..Len(attempts) : attempts[i].branch # "decoded"
             \/ /\ ~outcome.value.ok
                /\ outcome.value.error.type \in TransportErrorTypes
                /\ IsTransportError(exchanges[Len(exchanges)])

\* the steps of an episode: Composing(i) -> Sent, Sent -> Composing(i+1) after a
\* malformed or schema-invalid candidate, Sent -> terminal (success or transport
\* error), Composing -> Exhausted when no attempt is left; no step leaves a
\* terminal state and the attempt counter never decreases
C19_Step ==
    /\ pc # "done"
    /\ retry' >= retry
    /\ \/ /\ pc = "loop" /\ pc' = "await"
          /\ retry < max_retries /\ retry' = retry + 1
          /\ Len(calls') = Len(calls) + 1
       \/ /\ pc = "await" /\ pc' = "loop"
          /\ Len(attempts') = Len(attempts) + 1
          /\ attempts'[Len(attempts')].branch \in {"malformed", "mismatch"}
          /\ calls' = calls
       \/ /\ pc = "await" /\ pc' = "done"
          /\ calls' = calls
          /\ \/ outcome'.value.ok /\ attempts'[Len(attempts')].branch = "decoded"
             \/ ~outcome'.value.ok /\ outcome'.value.error.type \in TransportErrorTypes
       \/ /\ pc = "loop" /\ pc' = "done"
          /\ retry = max_retries
          /\ calls' = calls
          /\ outcome' = Some(Err(ExhaustedError))

\* C19: with every transport call coming back, the episode reaches a terminal
\* outcome, exactly one of the three, after at most max_retries transport calls,
\* by the steps above only.
C19_EveryEpisodeTerminates ==
    /\ []C19_OneTerminalOutcome
    /\ [][C19_Step]_vars
    /\ <>(pc = "done")

C19_Witness ==
    /\ pc = "done"
    /\ max_retries = 3
    /\ Len(calls) = 3
    /\ Len(attempts) = 3
    /\ attempts[1].branch = "malformed"
    /\ attempts[2].branch = "mismatch"
    /\ attempts[3].branch = "mismatch"
    /\ outcome = Some(Err(ExhaustedError))

\* ---------------------------------------------- properties of Config, config
HasWarning == \E i \in 1..Len(stderr) : stderr[i].kind = "warning"

\* C13: validate succeeds exactly when the key is not empty; a key that does not
\* start with sk-ant- gets the warning and the same result; the configuration
\* the client holds is the one validate was called on.
C13_ValidateIffKeyNonEmpty ==
    validation.some
    => LET key == config.value.api_key
           prefixed == Len(key) >= 7 /\ SubSeq(key, 1, 7) = SkAnt
       IN  /\ validation.value.ok <=> key # <<>>
           /\ ~validation.value.ok => validation.value.error.kind = "InvalidApiKey"
           /\ HasWarning <=> (key # <<>> /\ ~prefixed)
           /\ client.some => client.value.config = config.value

C13_Witness ==
    /\ validation.some
    /\ validation.value.ok
    /\ config.value.api_key = <<"x", TwoByteChar>>
    /\ HasWarning
    /\ client.some

\* the configuration a finished load left, reduced to what the sources decide
LoadedKeyIs(key) == config.some /\ config.value.api_key = key
LoadFailedNotFound ==
    /\ config = None
    /\ main_pc = "exited"
    /\ \E i \in 1..Len(stderr) :
          stderr[i].kind = "error" /\ stderr[i].error = [type |-> "Config", kind |-> "ApiKeyNotFound"]

\* C16 as stated: the explicit key is used whenever given; otherwise the
\* environment variable whenever it is set; otherwise the config file if it
\* loads; otherwise the load fails with ApiKeyNotFound.
C16_ExplicitThenEnvThenFile ==
    main_pc # "start"
    => IF cli_api_key.some THEN LoadedKeyIs(cli_api_key.value)
       ELSE IF env_api_key.kind # "unset"
       THEN env_api_key.kind = "set" /\ LoadedKeyIs(env_api_key.value)
       ELSE IF config_file.kind = "toml" THEN LoadedKeyIs(config_file.api_key)
       ELSE LoadFailedNotFound

\* C16, amended: the explicit key is used whenever given; otherwise the
\* environment variable whenever it is set to valid Unicode; otherwise (the
\* variable unset or not valid Unicode) the config file if it loads; otherwise
\* the load fails with ApiKeyNotFound.
C16_ExplicitThenUnicodeEnvThenFile ==
    main_pc # "start"
    => IF cli_api_key.some THEN LoadedKeyIs(cli_api_key.value)
       ELSE IF env_api_key.kind = "set" THEN LoadedKeyIs(env_api_key.value)
       ELSE IF config_file.kind = "toml"
       THEN /\ LoadedKeyIs(config_file.api_key)
            /\ command = "config" /\ config_file.model.some
               => config.value.model = config_file.model.value
       ELSE LoadFailedNotFound

C16_Witness ==
    /\ main_pc # "start"
    /\ cli_api_key = None
    /\ env_api_key.kind = "not_unicode"
    /\ config_file.kind = "toml"
    /\ LoadedKeyIs(SkAnt \o <<TwoByteChar>>)

\* text holds piece as a run of consecutive units
Contains(text, piece) ==
    \E i \in 1..(Len(text) - Len(piece) + 1) : SubSeq(text, i, i + Len(piece) - 1) = piece

\* C17: the config command prints the key as a prefix of at most 10 characters
\* followed by ***, and the rest of the key appears nowhere else in what the
\* command writes.
C17_KeyIsMasked ==
    (command = "config" /\ main_pc = "exited" /\ config.some)
    => LET key == config.value.api_key
       IN  \E n \in 0..min(10, Len(key)) :
              LET rest == SubSeq(key, n + 1, Len(key))
              IN  /\ Len(stdout) >= 2
                  /\ stdout[2] = <<"  API Key: ">> \o SubSeq(key, 1, n) \o <<"***">>
                  /\ rest # <<>>
                     => /\ \A i \in 1..Len(stdout) : i # 2 => ~Contains(stdout[i], rest)
                        /\ \A i \in 1..Len(stderr) : ~Contains(stderr[i].text, rest)

\* ------------------------------------------------- properties of the commands
HasErrorReport == \E i \in 1..Len(stderr) : stderr[i].kind = "error"

\* C12: the bool command exits with 0 when the engine resolved answer = true and
\* with 1 when it resolved answer = false, in both cases with no error message;
\* when it ended in an error (configuration, transport, exhausted retries) it
\* exits non-zero with the error message written, which the false case lacks.
C12_BoolExitCodes ==
    /\ main_pc # "exited" => exit_code = None
    /\ (command = "bool" /\ main_pc = "exited")
       => LET resolved == client.some /\ pc = "done" /\ outcome.some /\ outcome.value.ok
          IN  IF resolved
              THEN /\ exit_code = Some(IF outcome.value.value.answer THEN 0 ELSE 1)
                   /\ ~HasErrorReport
              ELSE /\ exit_code.some /\ exit_code.value # 0
                   /\ HasErrorReport
                   /\ client.some => stderr[Len(stderr)].error = outcome.value.error

C12_Witness ==
    /\ command = "bool"
    /\ main_pc = "exited"
    /\ outcome.some /\ outcome.value.ok /\ ~outcome.value.value.answer
    /\ exit_code = Some(1)
    /\ HasWarning
    /\ Len(calls) = 2

\* the transport calls of the finished episodes
EarlierCalls == IF Len(episodes) = 0 THEN 0 ELSE Len(episodes[1].calls)

NoTransportActivity ==
    calls = <<>> /\ exchanges = <<>> /\ episodes = <<>> /\ ~inflight.some

\* C14: a Client exists only for a validated configuration with a non-empty key;
\* Client::new fails for an empty key; and as long as no Client was built
\* (the load or the validation failed) no transport call is issued, by any
\* command, and the command ends with the error reported.
C14_ConfigErrorsBeforeNetwork ==
    /\ client.some
       => /\ client.value.config.api_key # <<>>
          /\ validation = Some(Ok("unit"))
    /\ (validation.some /\ config.value.api_key = <<>>)
       => /\ client = None
          /\ ~validation.value.ok
    /\ client = None => NoTransportActivity
    /\ (command # "config" /\ main_pc = "exited" /\ client = None)
       => /\ HasErrorReport
          /\ exit_code = Some(1)
          /\ stdout = <<>>

C14_Witness ==
    /\ command = "book"
    /\ main_pc = "exited"
    /\ cli_api_key = None
    /\ config.some
    /\ validation.some /\ ~validation.value.ok
    /\ NoTransportActivity

\* C20: in the book command the recommendation episode runs only after the
\* extraction episode returned a typed value and the aggregation of that value
\* completed; it starts from one user turn, the selected themes joined by ", ",
\* and holds besides it only its own feedback turns; an extraction that ended in
\* an error is followed by no call; the calls of both episodes are at most 6.
C20_BookStagesInOrder ==
    command = "book"
    => /\ Len(episodes) <= 1
       /\ EarlierCalls + Len(calls) <= 6
       /\ target = "RecommendationResponse"
          => LET prompt == [role |-> "user", content |-> join(selected_themes, ", ")]
             IN  /\ Len(episodes) = 1
                 /\ episodes[1].target = "BookResponse"
                 /\ episodes[1].outcome.ok
                 /\ stage = "selected"
                 /\ book_response = episodes[1].outcome.value
                 /\ selected_themes = <<"war", "peace">> => prompt.content = <<"war", ", ", "peace">>
                 /\ Len(calls) >= 1 => calls[1].messages = <<prompt>>
                 /\ \A j \in 1..Len(calls) :
                       /\ Len(calls[j].messages) = 2 * j - 1
                       /\ \A k \in 1..Len(calls[j].messages) :
                             calls[j].messages[k].content # BookMessage
       /\ (target = "BookResponse" /\ pc = "done" /\ ~outcome.value.ok)
          => /\ episodes = <<>>
             /\ stage = "idle"
             /\ Len(calls) <= 3
       /\ (main_pc = "exited" /\ episodes = <<>>) => target # "RecommendationResponse"

C20_Witness ==
    /\ command = "book"
    /\ main_pc = "exited"
    /\ EarlierCalls = 3
    /\ Len(calls) = 3
    /\ exit_code = Some(0)
    /\ selected_themes = <<"war", "peace">>

\* ------------------------------------------- properties settled on the edges
\* C21: for a 2xx response whose body is a success envelope with at least one
\* content block, the text returned is the text of the first block (the
\* candidate is the lead followed by it); a 2xx response with any other body, or
\* with an empty content list, ends the call with UnexpectedResponse and no text.
C21_FirstBlockOrUnexpectedResponse ==
    \A j \in 1..Len(exchanges) :
        (exchanges[j].sent /\ exchanges[j].status >= 200 /\ exchanges[j].status <= 299)
        => LET body == exchanges[j].body
           IN  IF body.kind = "MessageResponse" /\ Len(body.content) >= 1
               THEN /\ Len(attempts) >= j
                    /\ attempts[j].candidate = <<LBrace>> \o body.content[1].text
               ELSE /\ j = Len(exchanges)
                    /\ Len(attempts) = j - 1
                    /\ ReturnedErr
                    /\ outcome.value.error.type = "UnexpectedResponse"

C21_Witness ==
    /\ Len(exchanges) = 2
    /\ exchanges[1].sent /\ exchanges[1].status = 200
    /\ exchanges[1].body.kind = "MessageResponse" /\ Len(exchanges[1].body.content) = 2
    /\ attempts[1].candidate = <<LBrace>>
    /\ exchanges[2].sent /\ exchanges[2].status = 200
    /\ exchanges[2].body.kind = "MessageResponse" /\ exchanges[2].body.content = <<>>
    /\ ReturnedErr

\* C22: the request in flight at attempt i is the episode's sequence followed by
\* one assistant turn holding the lead, 1 + 2 * (i - 1) + 1 turns in all; the
\* episode's own sequence is the prompt and the feedback pairs only: it has
\* 1 + 2 * (failed attempts) turns, each assistant turn in it is the candidate of
\* a failed attempt, and it never ends with an assistant turn.
C22_LeadDoesNotAccumulate ==
    LET m == into_vec(messages)
    IN  /\ Len(m) = 1 + 2 * Cardinality({i \in 1..Len(attempts) : attempts[i].branch # "decoded"})
        /\ m[Len(m)].role = "user"
        /\ \A k \in 1..Len(m) :
              m[k].role = "assistant" => (k % 2 = 0 /\ m[k].content = attempts[k \div 2].candidate)
        /\ inflight.some
           => LET request == inflight.value.messages
              IN  /\ Len(request) = 1 + 2 * (retry - 1) + 1
                  /\ SubSeq(request, 1, Len(request) - 1) = m
                  /\ request[Len(request)] = [role |-> "assistant", content |-> <<LBrace>>]
                  /\ calls[Len(calls)].messages = m

C22_Witness ==
    /\ inflight.some
    /\ retry = 3
    /\ Len(inflight.value.messages) = 6
    /\ attempts[1].candidate = <<LBrace>>
    /\ attempts[2].branch = "mismatch"

\* C23: called with max_retries = 0 the engine makes no transport call, leaves
\* the conversation as it was given, and returns the exhausted-retries error.
C23_ZeroRetriesFailsWithoutCall ==
    max_retries = 0
    => /\ calls = <<>> /\ exchanges = <<>> /\ attempts = <<>>
       /\ ~inflight.some
       /\ Len(into_vec(messages)) = 1
       /\ into_vec(messages)[1].role = "user" /\ into_vec(messages)[1].content \in Prompts
       /\ pc \in {"loop", "done"}
       /\ pc = "done" => outcome = Some(Err(ExhaustedError))

C23_Witness ==
    /\ max_retries = 0
    /\ pc = "done"
    /\ target = "BookResponse"
    /\ outcome = Some(Err(ExhaustedError))

\* C24: an explicit key that is empty is loaded as it is, whatever the
\* environment variable and the config file hold; build_from_cli then fails
\* with InvalidApiKey and no Client is built.
C24_ExplicitEmptyKeyIsNotSkipped ==
    (cli_api_key = Some(<<>>) /\ main_pc # "start")
    => /\ config.some
       /\ config.value.api_key = <<>>
       /\ command = "send"
          => /\ validation = Some(Err([type |-> "Config", kind |-> "InvalidApiKey"]))
             /\ client = None
             /\ main_pc = "exited"
             /\ exit_code = Some(1)
             /\ stderr = <<ErrorReport([type |-> "Config", kind |-> "InvalidApiKey"])>>

C24_Witness ==
    /\ cli_api_key = Some(<<>>)
    /\ env_api_key = [kind |-> "set", value |-> SkAnt \o <<OneByteChar>>]
    /\ config_file.kind = "toml" /\ config_file.api_key = SkAnt \o <<TwoByteChar>>
    /\ command = "send"
    /\ main_pc = "exited"
    /\ client = None

====
